---- MODULE Spec2Model ----
(***************************************************************************)
(* Model of bot.py: the request pipeline get_bot_response, its helpers     *)
(* extract_name_from_message and perform_web_search, and the two front     *)
(* ends (FastAPI /chat endpoint, Telegram message handler).                *)
(*                                                                         *)
(* Text is a sequence of string fragments; single characters are           *)
(* one-character fragments, so that regular-expression search, lower(),    *)
(* title() and strip() work on the characters they work on in Python.      *)
(*                                                                         *)
(* Every external call (embedder, memory store, language model, search     *)
(* provider) either returns or raises.  Each turn keeps the log of the     *)
(* calls it made and the rows its inserts added to the table.              *)
(***************************************************************************)
EXTENDS Integers, Sequences, FiniteSets, Bags, TLC

\* ------------------------------------------------------------------------
\* Bounds of the model
\* ------------------------------------------------------------------------
MaxTurns == 2        \* turns dispatched in one behaviour
MaxPending == 1      \* requests a front end has accepted but not dispatched
MaxMatches == 1      \* records the similarity search finds above the threshold
MaxOrganic == 5      \* organic results in a provider result (pure-function spec)

\* ------------------------------------------------------------------------
\* Characters and text helpers (Python str methods used by the code)
\* ------------------------------------------------------------------------
Lowers == <<"a","b","c","d","e","f","g","h","i","j","k","l","m",
            "n","o","p","q","r","s","t","u","v","w","x","y","z">>
Uppers == <<"A","B","C","D","E","F","G","H","I","J","K","L","M",
            "N","O","P","Q","R","S","T","U","V","W","X","Y","Z">>
Digits == {"0","1","2","3","4","5","6","7","8","9"}
Whitespace == {" ", "\n", "\t"}

IsLower(c) == \E i \in 1..26 : Lowers[i] = c
IsUpper(c) == \E i \in 1..26 : Uppers[i] = c
IsLetter(c) == IsLower(c) \/ IsUpper(c)
\* \w of the re module
IsWord(c) == IsLetter(c) \/ c \in Digits \/ c = "_"

\* str.lower(), one character
LowerChar(c) == IF IsUpper(c) THEN Lowers[CHOOSE i \in 1..26 : Uppers[i] = c] ELSE c
UpperChar(c) == IF IsLower(c) THEN Uppers[CHOOSE i \in 1..26 : Lowers[i] = c] ELSE c
lower(s) == [i \in 1..Len(s) |-> LowerChar(s[i])]

\* str.title(): a letter that follows a non-letter is upper-cased, any other
\* letter is lower-cased
title(s) == [i \in 1..Len(s) |->
               IF i = 1 \/ ~IsLetter(s[i-1]) THEN UpperChar(s[i]) ELSE LowerChar(s[i])]

\* str.strip(): drop leading and trailing whitespace fragments
RECURSIVE lstrip(_)
lstrip(s) == IF s # <<>> /\ Head(s) \in Whitespace THEN lstrip(Tail(s)) ELSE s
RECURSIVE rstrip(_)
rstrip(s) == IF s # <<>> /\ s[Len(s)] \in Whitespace
               THEN rstrip(SubSeq(s, 1, Len(s) - 1)) ELSE s
strip(s) == rstrip(lstrip(s))

\* " ".join(list of texts)
RECURSIVE join(_)
join(l) == IF l = <<>> THEN <<>>
           ELSE IF Len(l) = 1 THEN l[1]
           ELSE l[1] \o <<" ">> \o join(Tail(l))

\* ------------------------------------------------------------------------
\* extract_name_from_message
\* ------------------------------------------------------------------------
\* Python None; the code only tests the result for truthiness, and a name
\* matched by (\w+) is never empty, so the empty text stands for None.
None == <<>>

\* literal prefixes of the four patterns, each followed by the group (\w+)
name_patterns == << <<"m","y"," ","n","a","m","e"," ","i","s"," ">>,
                    <<"i","'","m"," ">>,
                    <<"i"," ","a","m"," ">>,
                    <<"c","a","l","l"," ","m","e"," ">> >>

\* the pattern matches at position i of s: the literal prefix, then one word
\* character at least
MatchesAt(p, s, i) ==
    /\ i + Len(p) <= Len(s)
    /\ SubSeq(s, i, i + Len(p) - 1) = p
    /\ IsWord(s[i + Len(p)])

\* greedy \w+ starting at position j of s
RECURSIVE WordRun(_, _)
WordRun(s, j) == IF j <= Len(s) /\ IsWord(s[j])
                   THEN <<s[j]>> \o WordRun(s, j + 1) ELSE <<>>

\* re.search(pattern, s): group(1) of the leftmost match, None if no match
re_search(p, s) ==
    IF \E i \in 1..Len(s) : MatchesAt(p, s, i)
      THEN LET i == CHOOSE k \in 1..Len(s) :
                        /\ MatchesAt(p, s, k)
                        /\ \A m \in 1..(k-1) : ~MatchesAt(p, s, m)
           IN  WordRun(s, i + Len(p))
      ELSE None

RECURSIVE FirstPattern(_, _)
FirstPattern(k, s) ==
    IF k > Len(name_patterns) THEN None
    ELSE IF re_search(name_patterns[k], s) # None
           THEN title(re_search(name_patterns[k], s))
           ELSE FirstPattern(k + 1, s)

extract_name_from_message(message) == FirstPattern(1, lower(message))

\* ------------------------------------------------------------------------
\* perform_web_search
\* ------------------------------------------------------------------------
\* A provider outcome is either an exception or a result dictionary.  A
\* dictionary key that may be absent is a flag next to its value; an absent
\* "organic_results" key is the empty list, as results.get(..., []) makes it.
NoSnippet == [has_snippet |-> FALSE, snippet |-> <<>>]
Snip(t) == [has_snippet |-> TRUE, snippet |-> <<t>>]

NoAnswerBox == [present |-> FALSE, has_snippet |-> FALSE, snippet |-> <<>>]
BoxNoSnippet == [present |-> TRUE, has_snippet |-> FALSE, snippet |-> <<>>]
BoxSnippet(t) == [present |-> TRUE, has_snippet |-> TRUE, snippet |-> <<t>>]

ProviderResult(box, organic) ==
    [raised |-> FALSE, error |-> <<>>, answer_box |-> box, organic_results |-> organic]
ProviderError(e) ==
    [raised |-> TRUE, error |-> <<e>>, answer_box |-> NoAnswerBox, organic_results |-> <<>>]

NoResultsFound == <<"No results found.">>
ErrorInWebSearch(e) == <<"Error in web search: ">> \o e

\* variant: the slice [:4] is missing
FirstFour_unsliced(organic) == organic

\* results.get("organic_results", [])[:4]
FirstFour(organic) == SubSeq(organic, 1, IF Len(organic) < 4 THEN Len(organic) ELSE 4)

\* [res["snippet"] for res in ... if "snippet" in res]
RECURSIVE Snippets(_)
Snippets(organic) ==
    IF organic = <<>> THEN <<>>
    ELSE IF Head(organic).has_snippet
           THEN <<Head(organic).snippet>> \o Snippets(Tail(organic))
           ELSE Snippets(Tail(organic))

perform_web_search(outcome) ==
    IF outcome.raised THEN ErrorInWebSearch(outcome.error)
    ELSE LET snippets == Snippets(FirstFour(outcome.organic_results))
         IN  IF outcome.answer_box.present /\ outcome.answer_box.has_snippet
               THEN outcome.answer_box.snippet
               ELSE IF snippets # <<>> THEN join(snippets) ELSE NoResultsFound

\* ------------------------------------------------------------------------
\* Inputs and external outcomes
\* ------------------------------------------------------------------------
FrontEnds == {"web", "telegram"}
Users == {1}

MsgIm == <<"I","'","M"," ","b","o","b">>
MsgHello == <<"h","e","l","l","o">>
Messages == {MsgIm, MsgHello}

\* content of the planner's reply: text that json.loads rejects, JSON that
\* is not an object, or an object whose "tool" and "query" keys may be absent
Malformed == [valid |-> FALSE, is_object |-> FALSE, has_tool |-> FALSE, tool |-> <<>>,
              has_query |-> FALSE, query |-> <<>>]
NonObject == [valid |-> TRUE, is_object |-> FALSE, has_tool |-> FALSE, tool |-> <<>>,
              has_query |-> FALSE, query |-> <<>>]
EmptyObject == [valid |-> TRUE, is_object |-> TRUE, has_tool |-> FALSE, tool |-> <<>>,
                has_query |-> FALSE, query |-> <<>>]
ToolOnly(t) == [valid |-> TRUE, is_object |-> TRUE, has_tool |-> TRUE, tool |-> <<t>>,
                has_query |-> FALSE, query |-> <<>>]
ToolQuery(t, q) == [valid |-> TRUE, is_object |-> TRUE, has_tool |-> TRUE, tool |-> <<t>>,
                    has_query |-> TRUE, query |-> <<q>>]
PlannerContents == {Malformed, NonObject, EmptyObject, ToolOnly("none"), ToolOnly("lookup"),
                    ToolQuery("web_search", "weather today")}

\* dict.get(key): the value, None when the key is absent
GetTool(d) == IF d.has_tool THEN d.tool ELSE None
GetQuery(d) == IF d.has_query THEN d.query ELSE None

\* what the search provider does in a turn: it raises, or returns a result
\* (SearchInputs, below, has every shape of result for perform_web_search)
ProviderOutcomes == {ProviderError("timeout"),
                     ProviderResult(NoAnswerBox, <<NoSnippet, Snip("s1"), Snip("s2")>>)}

\* what the responder generates
Answers == {<<"Nice to meet you.">>}

Apology == <<"Sorry, something went wrong. Please try again.">>
NoPreviousContext == <<"No previous context available.">>
MemoryHeader == <<"MEMORY from past conversations:", "\n">>
WebHeader == <<"WEB SEARCH RESULTS:", "\n">>
match_count == 8

\* ------------------------------------------------------------------------
\* State
\* ------------------------------------------------------------------------
VARIABLES
    store,         \* the 'memories' table: the bag of its rows (a table has no order)
    pending,       \* per front end: requests accepted, handler not yet started
    arrived,       \* requests accepted so far
    turn,          \* per front end: the locals of the handler its loop runs
    search_input,  \* pure-function specification: provider outcome in hand
    search_output  \* pure-function specification: what perform_web_search returned

vars == <<store, pending, arrived, turn, search_input, search_output>>

NotCalled == <<"<not called>">>

Idle == [pc |-> "idle", user_id |-> 0, user_message |-> <<>>,
         memories |-> <<>>, memory_context |-> <<>>,
         planning_content |-> EmptyObject, decision_json |-> EmptyObject,
         tool_to_use |-> None, search_query |-> None, web_context |-> <<>>,
         final_user_prompt |-> <<>>,
         bot_response |-> <<>>, ret |-> <<>>, failed_at |-> "none", log |-> <<>>,
         persisted |-> <<>>]

\* a record of the 'memories' table (its embedding is a function of content)
MemoryRecord(u, c) == [user_id |-> u, content |-> c]

\* rows present when the process starts
PriorStore == SetToBag({ MemoryRecord(1, <<"The user's name is ", "Charlie">>),
                         MemoryRecord(2, <<"The user's name is ", "Dana">>) })

\* supabase.table('memories').insert(rec)
Insert(rec) == store (+) SetToBag({rec})

\* one external call entered in the turn's log: the operation, whether it
\* returned (ok) or raised, and the query it was given (web search only)
Call(op, ok) == [op |-> op, ok |-> ok, arg |-> <<>>]
CallWith(op, ok, arg) == [op |-> op, ok |-> ok, arg |-> arg]

\* variant: the handler returns the text of the exception
except_Exception_raw(t, step) ==
    [t EXCEPT !.pc = "done", !.ret = <<"Error in get_bot_response: ", step>>,
              !.failed_at = step]

\* variant: the handler returns the answer when one was already generated
except_Exception_partial(t, step) ==
    [t EXCEPT !.pc = "done", !.failed_at = step,
              !.ret = IF t.bot_response # <<>> THEN t.bot_response ELSE Apology]

\* except Exception (lines 181-183): log, return the fixed apology
except_Exception(t, step) == [t EXCEPT !.pc = "done", !.ret = Apology, !.failed_at = step]

\* f"User said: '{user_message}'"
memory_to_save(user_message) == <<"User said: '">> \o user_message \o <<"'">>
\* f"The user's name is {extracted_name}"
name_memory(extracted_name) == <<"The user's name is ">> \o extracted_name

\* lines 95-100: the memory context built from memories.data
RECURSIVE MemoryLines(_)
MemoryLines(data) ==
    IF data = <<>> THEN <<>>
    ELSE <<"- ">> \o Head(data).content \o <<"\n">> \o MemoryLines(Tail(data))

\* variant: the header is written outside the test of memories.data
memory_context_of_header(data) == MemoryHeader \o MemoryLines(data)

memory_context_of(data) == IF data # <<>> THEN MemoryHeader \o MemoryLines(data) ELSE <<>>

\* line 127
web_context_of(web_results) == WebHeader \o web_results \o <<"\n", "\n">>

\* line 141
all_context_of(memory_context, web_context) == strip(memory_context \o web_context)

\* line 143: the context block of the final prompt
ContextBlock(all_context) == IF all_context # <<>> THEN all_context ELSE NoPreviousContext

\* lines 142-146: the context block, then the message and the closing line
PromptTail(user_message) ==
    <<"\n", "\n", "User message: '">> \o user_message
        \o <<"'", "\n", "Response based on the context above:">>

final_user_prompt_of(all_context, user_message) ==
    ContextBlock(all_context) \o PromptTail(user_message)

\* the rows of one user
UserRecords(u) == {r \in BagToSet(store) : r.user_id = u}

\* what match_memories may return: rows of the user that the similarity
\* search finds above the threshold, at most match_count of them, in the
\* order of their similarity
MatchResults(u) ==
    LET limit == IF match_count < MaxMatches THEN match_count ELSE MaxMatches
    IN  { data \in UNION { [1..n -> UserRecords(u)] : n \in 0..limit } :
            \A r \in UserRecords(u) :
               Cardinality({i \in 1..Len(data) : data[i] = r}) <= CopiesIn(r, store) }

\* ------------------------------------------------------------------------
\* Initial state
\* ------------------------------------------------------------------------
IdleSearch == ProviderError("idle")

Init ==
    /\ store = PriorStore
    /\ pending = [fe \in FrontEnds |-> 0]
    /\ arrived = 0
    /\ turn = [fe \in FrontEnds |-> Idle]
    /\ search_input = IdleSearch
    /\ search_output = NotCalled

\* ------------------------------------------------------------------------
\* Front ends.  Each front end runs its handlers on its own event loop
\* (uvicorn in the main thread, run_polling in telegram_thread).  A handler
\* holds its loop until it awaits; get_bot_response awaits nothing, so the
\* loop of a front end runs one pipeline at a time, start to end.
\* ------------------------------------------------------------------------
SetTurn(fe, t) == turn' = [turn EXCEPT ![fe] = t]

\* a request reaches a front end (POST /chat, or a Telegram text message)
Arrive(fe) ==
    /\ arrived < MaxTurns
    /\ pending[fe] < MaxPending
    /\ pending' = [pending EXCEPT ![fe] = @ + 1]
    /\ arrived' = arrived + 1
    /\ UNCHANGED <<store, turn, search_input, search_output>>

\* the loop of the front end starts the handler of a pending request:
\* chat_endpoint calls get_bot_response at once, handle_message first sends
\* the typing action
Dispatch(fe) ==
    /\ turn[fe].pc = "idle"
    /\ pending[fe] > 0
    /\ \E u \in Users, m \in Messages :
         SetTurn(fe, [Idle EXCEPT !.pc = IF fe = "telegram" THEN "typing" ELSE "match_memories",
                                  !.user_id = u,
                                  !.user_message = m])
    /\ pending' = [pending EXCEPT ![fe] = @ - 1]
    /\ UNCHANGED <<store, arrived, search_input, search_output>>

\* handle_message, line 219
SendChatAction(fe) ==
    /\ fe = "telegram"
    /\ turn[fe].pc = "typing"
    /\ SetTurn(fe, [turn[fe] EXCEPT !.pc = "match_memories"])
    /\ UNCHANGED <<store, pending, arrived, search_input, search_output>>

\* the handler hands the returned text to its transport (lines 202, 223)
Reply(fe) ==
    /\ turn[fe].pc = "done"
    /\ SetTurn(fe, Idle)
    /\ UNCHANGED <<store, pending, arrived, search_input, search_output>>

\* ------------------------------------------------------------------------
\* get_bot_response.  The embedder is a library running in the process; an
\* encode and the store call it prepares are one action, with the failure
\* of either as an outcome.
\* ------------------------------------------------------------------------
Logged(t, c) == [t EXCEPT !.log = Append(@, c)]

\* step 1, lines 86-100: encode(user_message), the match_memories rpc and
\* the memory context built from its data
MatchMemories(fe) ==
    /\ turn[fe].pc = "match_memories"
    /\ \/ LET t == Logged(turn[fe], Call("encode_message", FALSE))
          IN  SetTurn(fe, except_Exception(t, "encode_message"))
       \/ LET t == Logged(Logged(turn[fe], Call("encode_message", TRUE)),
                          Call("match_memories", FALSE))
          IN  SetTurn(fe, except_Exception(t, "match_memories"))
       \/ \E data \in MatchResults(turn[fe].user_id) :
            LET t == Logged(Logged(turn[fe], Call("encode_message", TRUE)),
                            Call("match_memories", TRUE))
            IN  SetTurn(fe, [t EXCEPT !.pc = "planner",
                                      !.memories = data,
                                      !.memory_context = memory_context_of(data)])
    /\ UNCHANGED <<store, pending, arrived, search_input, search_output>>

\* variant: every tool other than "none" is searched for
Planned_any_tool(t, content) ==
    IF ~content.valid THEN except_Exception(t, "json_loads")
    ELSE IF ~content.is_object THEN except_Exception(t, "decision_get")
    ELSE [t EXCEPT !.decision_json = content,
                   !.tool_to_use = GetTool(content),
                   !.search_query = IF content.has_tool /\ GetTool(content) # <<"none">>
                                      THEN GetQuery(content) ELSE None,
                   !.pc = IF content.has_tool /\ GetTool(content) # <<"none">>
                            THEN "web_search" ELSE "responder"]

\* variant: a reply that does not parse is taken as {"tool": "none"}
Planned_repair(t, content) ==
    IF ~content.valid THEN [t EXCEPT !.pc = "responder"]
    ELSE IF ~content.is_object THEN except_Exception(t, "decision_get")
    ELSE [t EXCEPT !.decision_json = content,
                   !.tool_to_use = GetTool(content),
                   !.search_query = IF GetTool(content) = <<"web_search">>
                                      THEN GetQuery(content) ELSE None,
                   !.pc = IF GetTool(content) = <<"web_search">>
                            THEN "web_search" ELSE "responder"]

\* variant: the planner is asked again when its reply does not parse
Planned_retry(t, content) ==
    IF ~content.valid THEN [t EXCEPT !.pc = "planner"]
    ELSE IF ~content.is_object THEN except_Exception(t, "decision_get")
    ELSE [t EXCEPT !.decision_json = content,
                   !.tool_to_use = GetTool(content),
                   !.search_query = IF GetTool(content) = <<"web_search">>
                                      THEN GetQuery(content) ELSE None,
                   !.pc = IF GetTool(content) = <<"web_search">>
                            THEN "web_search" ELSE "responder"]

\* step 2, lines 118-129: json.loads of the planner's content, the
\* decision's tool and the branch on it
Planned(t, content) ==
    IF ~content.valid THEN except_Exception(t, "json_loads")
    ELSE IF ~content.is_object THEN except_Exception(t, "decision_get")
    ELSE [t EXCEPT !.decision_json = content,
                   !.tool_to_use = GetTool(content),
                   !.search_query = IF GetTool(content) = <<"web_search">>
                                      THEN GetQuery(content) ELSE None,
                   !.pc = IF GetTool(content) = <<"web_search">>
                            THEN "web_search" ELSE "responder"]

\* step 2, lines 103-116: the planner call
PlannerChat(fe) ==
    /\ turn[fe].pc = "planner"
    /\ \/ LET t == Logged(turn[fe], Call("planner", FALSE))
          IN  SetTurn(fe, except_Exception(t, "planner"))
       \/ \E content \in PlannerContents :
            LET t == Logged(turn[fe], Call("planner", TRUE))
            IN  SetTurn(fe, Planned([t EXCEPT !.planning_content = content], content))
    /\ UNCHANGED <<store, pending, arrived, search_input, search_output>>

\* variant: perform_web_search lets the provider's exception through
Searched_reraise(t, outcome) ==
    IF outcome.raised THEN except_Exception(t, "web_search")
    ELSE [t EXCEPT !.pc = "responder",
                   !.web_context = web_context_of(perform_web_search(outcome))]

\* lines 126-127: the search result, whatever it is, becomes the web context
Searched(t, outcome) ==
    [t EXCEPT !.pc = "responder",
              !.web_context = web_context_of(perform_web_search(outcome))]

\* step 3, lines 124-127: perform_web_search(search_query)
WebSearch(fe) ==
    /\ turn[fe].pc = "web_search"
    /\ \E outcome \in ProviderOutcomes :
         LET t == Logged(turn[fe], CallWith("web_search", ~outcome.raised, turn[fe].search_query))
         IN  SetTurn(fe, Searched(t, outcome))
    /\ UNCHANGED <<store, pending, arrived, search_input, search_output>>

\* step 4, lines 132-154: the final prompt is built and the responder called
ResponderChat(fe) ==
    /\ turn[fe].pc = "responder"
    /\ SetTurn(fe, [turn[fe] EXCEPT
                      !.pc = "responder_wait",
                      !.final_user_prompt =
                          final_user_prompt_of(all_context_of(turn[fe].memory_context,
                                                              turn[fe].web_context),
                                               turn[fe].user_message)])
    /\ UNCHANGED <<store, pending, arrived, search_input, search_output>>

\* line 155: the answer is kept; the locals of steps 1-4, which nothing
\* reads after the responder has answered, are dropped
Responded(t, answer) ==
    [t EXCEPT !.pc = "insert_memory",
              !.bot_response = answer,
              !.memories = Idle.memories,
              !.memory_context = Idle.memory_context,
              !.planning_content = Idle.planning_content,
              !.decision_json = Idle.decision_json,
              !.tool_to_use = Idle.tool_to_use,
              !.search_query = Idle.search_query,
              !.web_context = Idle.web_context,
              !.final_user_prompt = Idle.final_user_prompt]

\* step 4, lines 148-155: the responder call returns or raises
ResponderReturn(fe) ==
    /\ turn[fe].pc = "responder_wait"
    /\ \/ SetTurn(fe, except_Exception(Logged(turn[fe], Call("responder", FALSE)), "responder"))
       \/ \E answer \in Answers :
            SetTurn(fe, Responded(Logged(turn[fe], Call("responder", TRUE)), answer))
    /\ UNCHANGED <<store, pending, arrived, search_input, search_output>>

\* line 179: return bot_response
Returned(t) == [t EXCEPT !.pc = "done", !.ret = t.bot_response]

\* variant: the name pass is skipped
Inserted_no_name(t) == Returned(t)

\* lines 167-168: the name extraction decides whether a name record follows
Inserted(t) ==
    IF extract_name_from_message(t.user_message) # None
      THEN [t EXCEPT !.pc = "insert_name"] ELSE Returned(t)

\* step 5, lines 159-168: encode(memory_to_save) and the insert of the
\* raw-message record
InsertMemory(fe) ==
    /\ turn[fe].pc = "insert_memory"
    /\ \/ /\ SetTurn(fe, except_Exception(Logged(turn[fe], Call("encode_memory", FALSE)),
                                          "encode_memory"))
          /\ UNCHANGED store
       \/ /\ SetTurn(fe, except_Exception(
                           Logged(Logged(turn[fe], Call("encode_memory", TRUE)),
                                  Call("insert_memory", FALSE)),
                           "insert_memory"))
          /\ UNCHANGED store
       \/ LET rec == MemoryRecord(turn[fe].user_id, memory_to_save(turn[fe].user_message))
              t == Logged(Logged(turn[fe], Call("encode_memory", TRUE)),
                          Call("insert_memory", TRUE))
          IN  /\ store' = Insert(rec)
              /\ SetTurn(fe, Inserted([t EXCEPT !.persisted = Append(@, rec)]))
    /\ UNCHANGED <<pending, arrived, search_input, search_output>>

\* step 5, lines 169-179: encode(name_memory), the insert of the name
\* record, then the return
InsertName(fe) ==
    /\ turn[fe].pc = "insert_name"
    /\ \/ /\ SetTurn(fe, except_Exception(Logged(turn[fe], Call("encode_name", FALSE)),
                                          "encode_name"))
          /\ UNCHANGED store
       \/ /\ SetTurn(fe, except_Exception(
                           Logged(Logged(turn[fe], Call("encode_name", TRUE)),
                                  Call("insert_name", FALSE)),
                           "insert_name"))
          /\ UNCHANGED store
       \/ LET rec == MemoryRecord(turn[fe].user_id,
                                   name_memory(extract_name_from_message(turn[fe].user_message)))
              t == Logged(Logged(turn[fe], Call("encode_name", TRUE)),
                          Call("insert_name", TRUE))
          IN  /\ store' = Insert(rec)
              /\ SetTurn(fe, Returned([t EXCEPT !.persisted = Append(@, rec)]))
    /\ UNCHANGED <<pending, arrived, search_input, search_output>>

Next ==
    \E fe \in FrontEnds :
       \/ Arrive(fe)
       \/ Dispatch(fe)
       \/ SendChatAction(fe)
       \/ MatchMemories(fe)
       \/ PlannerChat(fe)
       \/ WebSearch(fe)
       \/ ResponderChat(fe)
       \/ ResponderReturn(fe)
       \/ InsertMemory(fe)
       \/ InsertName(fe)
       \/ Reply(fe)

Spec == Init /\ [][Next]_vars

\* ------------------------------------------------------------------------
\* perform_web_search as a function of the provider's result
\* ------------------------------------------------------------------------
OrganicEntries == {NoSnippet, Snip("s1"), Snip("s2")}
AnswerBoxes == {NoAnswerBox, BoxNoSnippet, BoxSnippet("box")}
SearchInputs ==
    {ProviderError("timeout")} \cup
    { ProviderResult(box, organic) :
        box \in AnswerBoxes,
        organic \in UNION { [1..n -> OrganicEntries] : n \in 0..MaxOrganic } }

InitSearch ==
    /\ store = EmptyBag
    /\ pending = [fe \in FrontEnds |-> 0]
    /\ arrived = 0
    /\ turn = [fe \in FrontEnds |-> Idle]
    /\ search_input \in SearchInputs
    /\ search_output = NotCalled

CallSearch ==
    /\ search_output = NotCalled
    /\ search_output' = perform_web_search(search_input)
    /\ UNCHANGED <<store, pending, arrived, turn, search_input>>

NextSearch == CallSearch

SpecSearch == InitSearch /\ [][NextSearch]_vars

\* ------------------------------------------------------------------------
\* Vocabulary of the properties
\* ------------------------------------------------------------------------
Done(fe) == turn[fe].pc = "done"
InPipeline(fe) == turn[fe].pc \in {"match_memories", "planner", "web_search", "responder",
                                   "responder_wait", "insert_memory", "insert_name"}


PipelineStep(fe) ==
    \/ MatchMemories(fe)
    \/ PlannerChat(fe)
    \/ WebSearch(fe)
    \/ ResponderChat(fe)
    \/ ResponderReturn(fe)
    \/ InsertMemory(fe)
    \/ InsertName(fe)

Ops(t) == [i \in 1..Len(t.log) |-> t.log[i].op]
Count(t, op) == Cardinality({i \in 1..Len(t.log) : t.log[i].op = op})
Called(t, op) == \E i \in 1..Len(t.log) : t.log[i].op = op
CalledOk(t, op) == \E i \in 1..Len(t.log) : t.log[i].op = op /\ t.log[i].ok
CallFailed(t, op) == \E i \in 1..Len(t.log) : t.log[i].op = op /\ ~t.log[i].ok
FailedIn(t, ops) == \E i \in 1..Len(t.log) : t.log[i].op \in ops /\ ~t.log[i].ok

\* the turn has its final prompt: the responder is being called, or has raised
Prompted(fe) == turn[fe].pc = "responder_wait" \/ CallFailed(turn[fe], "responder")
\* the turn is past step 3 and its planning decision is still at hand
Decided(fe) == turn[fe].pc = "responder" \/ Prompted(fe)

IsPrefix(a, b) == Len(a) <= Len(b) /\ SubSeq(b, 1, Len(a)) = a
InStore(rec) == BagIn(rec, store)
Occurs(part, text) ==
    \E k \in 1..Len(text) : k + Len(part) - 1 <= Len(text)
                            /\ SubSeq(text, k, k + Len(part) - 1) = part

\* a name-introduction pattern is detected in the message
HasNamePattern(m) == \E k \in 1..Len(name_patterns) : re_search(name_patterns[k], lower(m)) # None

\* the planner's reply is a JSON object that chooses the web search
ChoseWebSearch(t) ==
    /\ t.planning_content.valid /\ t.planning_content.is_object
    /\ t.planning_content.has_tool /\ t.planning_content.tool = <<"web_search">>

RawRecord(t) == MemoryRecord(t.user_id, <<"User said: '">> \o t.user_message \o <<"'">>)
IsNameRecord(rec) == Len(rec.content) > 1 /\ rec.content[1] = "The user's name is "
NumRaw(t) == Cardinality({i \in 1..Len(t.persisted) : t.persisted[i] = RawRecord(t)})
NumName(t) == Cardinality({i \in 1..Len(t.persisted) : IsNameRecord(t.persisted[i])})

\* the context block of the prompt given to the responder
BlockOf(t) == SubSeq(t.final_user_prompt, 1,
                     Len(t.final_user_prompt) - Len(PromptTail(t.user_message)))

BeforeStep5 == {"encode_message", "match_memories", "planner", "responder"}
InStep5 == {"encode_memory", "insert_memory", "encode_name", "insert_name"}

\* ------------------------------------------------------------------------
\* Properties
\* ------------------------------------------------------------------------

\* C1: get_bot_response never fails outward: whatever external calls fail,
\* a turn in the pipeline can always take its next step, and the text it
\* returns is the responder's answer or the fixed apology.
C1_NeverFailsOutward ==
    \A fe \in FrontEnds :
       /\ InPipeline(fe) => ENABLED PipelineStep(fe)
       /\ Len(turn[fe].log) <= 9
       /\ Done(fe) =>
            \/ turn[fe].ret = Apology
            \/ /\ CalledOk(turn[fe], "responder")
               /\ turn[fe].ret = turn[fe].bot_response
               /\ turn[fe].ret \in Answers

C1_Witness ==
    \E fe \in FrontEnds :
       /\ Done(fe)
       /\ CallFailed(turn[fe], "encode_message")
       /\ turn[fe].ret = Apology

\* C2 as stated: every turn that reaches the responder call persists
\* exactly one raw-message record, and exactly one name record iff a name
\* pattern is detected.
C2_Stated ==
    \A fe \in FrontEnds :
       (Done(fe) /\ Called(turn[fe], "responder")) =>
          /\ NumRaw(turn[fe]) = 1
          /\ NumName(turn[fe]) = IF HasNamePattern(turn[fe].user_message) THEN 1 ELSE 0

\* C2 amended: every turn that returns the generated answer (the responder
\* call and every step-5 call succeeded) has persisted exactly the
\* raw-message record, followed by exactly one name record iff a name
\* pattern is detected, whether or not a web search was made.
C2_PersistsPerTurn ==
    \A fe \in FrontEnds :
       (Done(fe) /\ turn[fe].ret # Apology) =>
          LET names == IF HasNamePattern(turn[fe].user_message) THEN 1 ELSE 0
          IN  /\ NumRaw(turn[fe]) = 1
              /\ NumName(turn[fe]) = names
              /\ Len(turn[fe].persisted) = 1 + names
              /\ \A i \in 1..Len(turn[fe].persisted) : InStore(turn[fe].persisted[i])

C2_Witness ==
    \E fe \in FrontEnds :
       /\ Done(fe) /\ turn[fe].ret # Apology
       /\ HasNamePattern(turn[fe].user_message)
       /\ Called(turn[fe], "web_search")
       /\ turn[fe].persisted = <<RawRecord(turn[fe]),
                                 MemoryRecord(turn[fe].user_id, <<"The user's name is ", "B", "o", "b">>)>>

\* C3: the web search is made only in a turn whose planner chose
\* "web_search"; a turn whose planner chose it and that got past step 3 made
\* it exactly once, with the decision's query.
C3_SearchOnlyWhenChosen ==
    \A fe \in FrontEnds :
       LET t == turn[fe]
       IN  /\ Count(t, "web_search") <= 1
           /\ t.pc \in {"typing", "match_memories", "planner", "web_search"} =>
                ~Called(t, "web_search")
           /\ t.pc = "web_search" => ChoseWebSearch(t)
           /\ Decided(fe) =>
                IF ChoseWebSearch(t)
                  THEN \E i \in 1..Len(t.log) :
                          /\ t.log[i].op = "web_search"
                          /\ t.log[i].arg = GetQuery(t.planning_content)
                  ELSE ~Called(t, "web_search")

C3_Witness ==
    \E fe \in FrontEnds :
       /\ turn[fe].pc = "responder"
       /\ turn[fe].planning_content = ToolQuery("web_search", "weather today")
       /\ Count(turn[fe], "web_search") = 1
       /\ turn[fe].log[Len(turn[fe].log)].arg = <<"weather today">>

\* C4: a web search that raised does not fail the turn: its error string is
\* the search content, the responder is still called, and when no other call
\* fails the caller gets the generated answer and memory is persisted as in
\* a turn whose search succeeded.
C4_SearchFailureDegrades ==
    \A fe \in FrontEnds :
       LET t == turn[fe]
       IN  CallFailed(t, "web_search") =>
             /\ t.failed_at # "web_search"
             /\ t.pc # "idle"
             /\ Decided(fe) =>
                   IsPrefix(<<"WEB SEARCH RESULTS:", "\n", "Error in web search: ">>,
                            t.web_context)
             /\ Done(fe) => Called(t, "responder")
             /\ (Done(fe) /\ \A i \in 1..Len(t.log) : t.log[i].op = "web_search" \/ t.log[i].ok) =>
                   /\ t.ret = t.bot_response
                   /\ t.ret \in Answers
                   /\ NumRaw(t) = 1
                   /\ Len(t.persisted) = IF HasNamePattern(t.user_message) THEN 2 ELSE 1

C4_Witness ==
    \E fe \in FrontEnds :
       /\ Done(fe)
       /\ CallFailed(turn[fe], "web_search")
       /\ turn[fe].ret \in Answers
       /\ Len(turn[fe].persisted) = 2

\* C5: a turn in which a call before step 5 fails, or whose planner reply is
\* not a usable JSON object, returns the apology and has inserted nothing;
\* after a malformed planner reply neither the web search nor the responder
\* is called; no call is made twice.
C5_EarlyFailureLeavesStore ==
    \A fe \in FrontEnds :
       LET t == turn[fe]
           unusable == CalledOk(t, "planner")
                       /\ (~t.planning_content.valid \/ ~t.planning_content.is_object)
       IN  /\ FailedIn(t, BeforeStep5) \/ unusable =>
                /\ Done(fe)
                /\ t.ret = Apology
                /\ t.persisted = <<>>
                /\ \A op \in InStep5 : ~Called(t, op)
           /\ unusable => ~Called(t, "web_search") /\ ~Called(t, "responder")
           /\ \A i, j \in 1..Len(t.log) : t.log[i].op = t.log[j].op => i = j

C5_Witness ==
    \E fe \in FrontEnds :
       /\ Done(fe)
       /\ turn[fe].planning_content = Malformed
       /\ CalledOk(turn[fe], "planner")
       /\ turn[fe].memories # <<>>
       /\ turn[fe].ret = Apology

\* C6: the context block given to the responder is the literal fallback iff
\* the search returned no record and the planner did not choose the web
\* search; with no record the block has no MEMORY section, with records it
\* starts with that section and lists every record.
C6_ContextBlock ==
    \A fe \in FrontEnds :
       LET t == turn[fe]
           block == BlockOf(t)
       IN  Prompted(fe) =>
             /\ (block = <<"No previous context available.">>)
                   <=> (t.memories = <<>> /\ ~ChoseWebSearch(t))
             /\ t.memories = <<>> =>
                   \A k \in 1..Len(block) : block[k] # "MEMORY from past conversations:"
             /\ t.memories # <<>> =>
                   /\ IsPrefix(<<"MEMORY from past conversations:", "\n", "- ">>, block)
                   /\ \A i \in 1..Len(t.memories) :
                         Occurs(<<"\n", "- ">> \o t.memories[i].content, block)
             /\ block[1] \notin Whitespace /\ block[Len(block)] \notin Whitespace

C6_Witness ==
    \E fe \in FrontEnds :
       /\ turn[fe].pc = "responder_wait"
       /\ turn[fe].memories = <<>>
       /\ turn[fe].planning_content = ToolOnly("none")
       /\ BlockOf(turn[fe]) = <<"No previous context available.">>

\* C7: while a turn of a front end is in the pipeline, waiting on an
\* external call, a request pending at any front end whose loop runs no
\* other handler (the same front end included) can be handled.
C7_CallsBlockOnlyTheirTurn ==
    \A fe, fe2 \in FrontEnds :
       (InPipeline(fe) /\ pending[fe2] > 0 /\ (fe2 = fe \/ turn[fe2].pc = "idle"))
          => ENABLED Dispatch(fe2)

\* C9: the external calls of a turn are made in the fixed order, each at
\* most once, none after a failed call except after a failed web search,
\* and no insert before the responder has returned.
CanonicalOrders ==
    { <<"encode_message", "match_memories", "planner">> \o w
        \o <<"responder", "encode_memory", "insert_memory">> \o n :
        w \in {<<>>, <<"web_search">>}, n \in {<<>>, <<"encode_name", "insert_name">>} }

C9_FixedOrder ==
    \A fe \in FrontEnds :
       LET t == turn[fe]
       IN  /\ \E full \in CanonicalOrders : IsPrefix(Ops(t), full)
           /\ \A i \in 1..(Len(t.log) - 1) : t.log[i].ok \/ t.log[i].op = "web_search"
           /\ t.persisted # <<>> => CalledOk(t, "responder")
           /\ Len(t.persisted) = Cardinality({i \in 1..Len(t.log) :
                                    t.log[i].op \in {"insert_memory", "insert_name"} /\ t.log[i].ok})
           /\ ~Called(t, "match_memories") => t.persisted = <<>> /\ t.memories = <<>>

C9_Witness ==
    \E fe \in FrontEnds :
       /\ Done(fe)
       /\ Ops(turn[fe]) = <<"encode_message", "match_memories", "planner", "web_search",
                            "responder", "encode_memory", "insert_memory",
                            "encode_name", "insert_name">>
       /\ turn[fe].ret \in Answers

\* C10: a turn in which a step-5 call fails returns the apology, not the
\* answer already generated; a failed raw-message encode or insert leaves no
\* record of the turn, a failed name encode or insert leaves the raw-message
\* record; a name record is never persisted without the raw-message record
\* before it, and what was inserted stays in the store.
C10_LateFailure ==
    \A fe \in FrontEnds :
       LET t == turn[fe]
       IN  /\ FailedIn(t, InStep5) =>
                /\ Done(fe)
                /\ t.bot_response \in Answers
                /\ t.ret = Apology /\ t.ret # t.bot_response
           /\ FailedIn(t, {"encode_memory", "insert_memory"}) => t.persisted = <<>>
           /\ FailedIn(t, {"encode_name", "insert_name"}) => t.persisted = <<RawRecord(t)>>
           /\ \A i \in 1..Len(t.persisted) :
                /\ IsNameRecord(t.persisted[i]) => i = 2 /\ t.persisted[1] = RawRecord(t)
                /\ InStore(t.persisted[i])

C10_Witness ==
    \E fe \in FrontEnds :
       /\ Done(fe)
       /\ CallFailed(turn[fe], "insert_name")
       /\ turn[fe].persisted = <<RawRecord(turn[fe])>>
       /\ turn[fe].ret = Apology

\* C8 as stated: without an answer-box snippet the result is the first four
\* organic snippets joined by spaces, and "No results found." only when no
\* organic result has a snippet.
AllSnippets(outcome) ==
    LET with == SelectSeq(outcome.organic_results, LAMBDA r : r.has_snippet)
    IN  [i \in 1..Len(with) |-> with[i].snippet]

C8_Stated ==
    (search_output # NotCalled /\ ~search_input.raised) =>
       search_output =
          IF search_input.answer_box.present /\ search_input.answer_box.has_snippet
            THEN search_input.answer_box.snippet
            ELSE LET all == AllSnippets(search_input)
                 IN  IF all = <<>> THEN <<"No results found.">>
                     ELSE join(SubSeq(all, 1, IF Len(all) < 4 THEN Len(all) ELSE 4))

\* C8 amended: without an answer-box snippet the result is the snippets of
\* those of the first four organic results that have one, in provider order,
\* joined by spaces, and "No results found." when none of the first four
\* organic results has a snippet.
C8_FirstFourResults ==
    (search_output # NotCalled /\ ~search_input.raised) =>
       LET organic == search_input.organic_results
           idx == {i \in 1..Len(organic) : i <= 4 /\ organic[i].has_snippet}
       IN  search_output =
             IF search_input.answer_box.present /\ search_input.answer_box.has_snippet
               THEN search_input.answer_box.snippet
               ELSE IF idx = {} THEN <<"No results found.">>
               ELSE join([k \in 1..Cardinality(idx) |->
                            organic[CHOOSE i \in idx :
                                      Cardinality({j \in idx : j < i}) = k - 1].snippet])

C8_Witness ==
    /\ search_output = <<"s1", " ", "s2", " ", "s1">>
    /\ ~search_input.answer_box.present
    /\ Len(search_input.organic_results) = 5
    /\ ~search_input.organic_results[1].has_snippet
    /\ search_input.organic_results[5].has_snippet

====
